---- MODULE Spec2Model ----
(***************************************************************************)
(* Model of azcopy_wrapper.AzClient: the four job-output interpreters      *)
(* (_copy, _sync, _list, _remove), their finalize step and the location    *)
(* value objects they stringify.                                           *)
(*                                                                         *)
(* A Python str is modelled as a sequence of lexemes (TLA+ strings): every *)
(* literal the code tests for ("Job", "summary", "AuthenticationFailed",   *)
(* ":", "%", "(", digits, whitespace, JSON punctuation and JSON string     *)
(* literals) is one lexeme, so the str methods the code calls (startswith, *)
(* in, strip, lower, replace, split, re.match, json.loads) are computed on *)
(* the lexeme sequence.                                                    *)
(***************************************************************************)
EXTENDS Integers, Sequences, FiniteSets, TLC

\* Longest line stream the external process emits in one call.
MaxLines == 3

-----------------------------------------------------------------------------
\* str helpers

Whitespace == {" ", "\n", "\t"}

Digits == {"0", "1", "2", "3", "4", "5", "6", "7", "8", "9"}

DigitVal(c) ==
    CASE c = "0" -> 0 [] c = "1" -> 1 [] c = "2" -> 2 [] c = "3" -> 3
      [] c = "4" -> 4 [] c = "5" -> 5 [] c = "6" -> 6 [] c = "7" -> 7
      [] c = "8" -> 8 [] c = "9" -> 9

RECURSIVE lstrip(_)
lstrip(s) == IF s # <<>> /\ Head(s) \in Whitespace THEN lstrip(Tail(s)) ELSE s

RECURSIVE rstrip(_)
rstrip(s) ==
    IF s # <<>> /\ s[Len(s)] \in Whitespace
    THEN rstrip(SubSeq(s, 1, Len(s) - 1))
    ELSE s

strip(s) == lstrip(rstrip(s))

\* str.lower() on one lexeme
LowerTok(t) ==
    CASE t = "Job" -> "job"
      [] t = "JOB" -> "job"
      [] t = "Summary" -> "summary"
      [] t = "SUMMARY" -> "summary"
      [] t = "Final Job Status" -> "final job status"
      [] t = "Completed" -> "completed"
      [] t = "CompletedWithSkipped" -> "completedwithskipped"
      [] t = "CompletedWithErrors" -> "completedwitherrors"
      [] t = "AuthenticationFailed" -> "authenticationfailed"
      [] t = "INFO" -> "info"
      [] t = "Scanning" -> "scanning"
      [] t = "Elapsed Time" -> "elapsed time"
      [] t = "Minutes" -> "minutes"
      [] t = "Number of Transfers Failed" -> "number of transfers failed"
      [] t = "Number of Copy Transfers Failed" -> "number of copy transfers failed"
      [] t = "Number of Removals Failed" -> "number of removals failed"
      [] t = "RESPONSE" -> "response"
      [] t = "Done" -> "done"
      [] OTHER -> t

lower(s) == [i \in 1..Len(s) |-> LowerTok(s[i])]

startswith(s, p) == Len(s) >= Len(p) /\ SubSeq(s, 1, Len(p)) = p

endswith(s, p) == Len(s) >= Len(p) /\ SubSeq(s, Len(s) - Len(p) + 1, Len(s)) = p

\* p in s
Contains(s, p) ==
    \E i \in 1..(Len(s) - Len(p) + 1) : SubSeq(s, i, i + Len(p) - 1) = p

\* s.replace(t, "")
Remove(s, t) == SelectSeq(s, LAMBDA x : x # t)

\* s.split(sep)[-1]
SplitLast(s, sep) ==
    LET idx == {i \in 1..Len(s) : s[i] = sep}
    IN  IF idx = {} THEN s
        ELSE SubSeq(s, (CHOOSE i \in idx : \A j \in idx : j <= i) + 1, Len(s))

\* number of consecutive digit lexemes of s from position i on
RECURSIVE DigitRun(_, _)
DigitRun(s, i) ==
    IF i <= Len(s) /\ s[i] \in Digits THEN 1 + DigitRun(s, i + 1) ELSE 0

\* int() of a run of digit lexemes
RECURSIVE IntOf(_)
IntOf(ds) ==
    IF ds = <<>> THEN 0
    ELSE 10 * IntOf(SubSeq(ds, 1, Len(ds) - 1)) + DigitVal(ds[Len(ds)])

RECURSIVE StripTrailingZeros(_)
StripTrailingZeros(ds) ==
    IF ds # <<>> /\ ds[Len(ds)] = "0"
    THEN StripTrailingZeros(SubSeq(ds, 1, Len(ds) - 1))
    ELSE ds

\* float("<whole>.<frac>"): the number, as its integer part and its
\* significant fractional digits ("10.0", "10.00" and "010.0" are one float)
Float(whole, frac) == [whole |-> IntOf(whole), frac |-> StripTrailingZeros(frac)]

FloatZero == [whole |-> 0, frac |-> <<>>]

\* re.match(r"(?P<percent_complete>\d+\.\d+) %,", line): anchored at the
\* start of the line
PercentMatch(line) ==
    LET a == DigitRun(line, 1)
        b == DigitRun(line, a + 2)
    IN  IF /\ a >= 1
           /\ Len(line) >= a + 1 /\ line[a + 1] = "."
           /\ b >= 1
           /\ Len(line) >= a + b + 4
           /\ line[a + b + 2] = " "
           /\ line[a + b + 3] = "%"
           /\ line[a + b + 4] = ","
        THEN [matched |-> TRUE,
              value |-> Float(SubSeq(line, 1, a), SubSeq(line, a + 2, a + b + 1))]
        ELSE [matched |-> FALSE, value |-> FloatZero]

-----------------------------------------------------------------------------
\* Locations

LocalLoc == [type |-> "local", sas_token |-> ""]

SasLoc(t) == [type |-> "sas", sas_token |-> t]

VARIABLES
    pc,               \* position of the call: idle, constructed, stream, returned, raised
    raise_point,      \* where the call raised: none, construct, precondition, cmd, auth, stream, finalize
    raised_msg,       \* message of the raised Exception
    kind,             \* copy, sync, list, remove
    src, dest,        \* the locations of the call (list and remove use dest only)
    output_type,      \* AzListOptions.output_type
    expired,          \* tokens is_sas_token_session_expired currently reports expired
    job_info,         \* the job record of the call
    summary,          \* local summary of the interpreter
    unlock_summary,   \* local unlock_summary of the interpreter
    output_lines,     \* local output_lines of _list
    pulled,           \* lines pulled from execute_command so far
    echoed,           \* lines printed so far
    source_failed,    \* execute_command raised
    source_error,     \* str(e) of that failure
    consulted,        \* tokens handed to is_sas_token_session_expired by the except handler
    token_expiry_flag, \* what the predicate answered there
    path_check,       \* os.path.exists of sync_to_*_location: unchecked, exists, missing
    job_created,      \* the interpreter constructed its job record
    client,           \* the AzClient object: exe_to_use, artefact_dir
    remove_options,   \* one AzRemoveOptions object handed to two concurrent calls
    calls             \* the frames of two concurrent remove calls on the client

vars == <<pc, raise_point, raised_msg, kind, src, dest, output_type, expired,
          job_info, summary, unlock_summary, output_lines, pulled, echoed,
          source_failed, source_error, consulted, token_expiry_flag,
          path_check, job_created, client, remove_options, calls>>

JobKinds == {"copy", "sync", "remove"}

\* AzCopyJobInfo / AzSyncJobInfo / AzRemoveJobInfo / AzListJobInfo defaults;
\* number_failed is number_of_transfers_failed, number_of_copy_transfers_failed
\* or number_of_removals_failed according to the kind
NewJobInfo ==
    [percent_complete |-> FloatZero,
     error_msg |-> <<>>,
     final_job_status_msg |-> <<>>,
     completed |-> FALSE,
     number_failed |-> 0,
     output_text |-> <<>>,
     items |-> <<>>]

\* is_sas_token_session_expired(token) for a non-empty token
is_sas_token_session_expired(token) == token \in expired

\* AzRemoteSASLocation.__init__ and __str__: raise when the non-empty token
\* is reported expired
SasCheckRaises(loc) ==
    /\ loc.type = "sas"
    /\ loc.sas_token # ""
    /\ is_sas_token_session_expired(loc.sas_token)

Locations(k, s, d) == IF k \in {"list", "remove"} THEN {d} ELSE {s, d}

\* the two invocations that share the client
Invocations == {1, 2}

\* the frame of an invocation before the caller starts it
NewCall ==
    [method |-> "none",
     pc |-> "idle",
     cmd_recursive |-> FALSE,
     options_from |-> 0,
     job |-> NewJobInfo,
     summary |-> <<>>,
     unlock_summary |-> FALSE,
     pulled |-> <<>>]

\* AzClient.__init__ with its defaults
NewClient == [exe_to_use |-> "azcopy", artefact_dir |-> "None"]

\* AzRemoveOptions.__init__: recursive as constructed and as it is now, and
\* the invocation that assigned it last (0: the caller, in the constructor)
NewRemoveOptions(recursive) ==
    [made |-> TRUE, recursive |-> recursive, writer |-> 0, initial |-> recursive]

Init ==
    /\ client = NewClient
    /\ remove_options = [NewRemoveOptions(FALSE) EXCEPT !.made = FALSE]
    /\ calls = [i \in Invocations |-> NewCall]
    /\ pc = "idle"
    /\ raise_point = "none"
    /\ raised_msg = <<>>
    /\ kind = "copy"
    /\ src = LocalLoc
    /\ dest = LocalLoc
    /\ output_type = "text"
    /\ expired = {}
    /\ job_info = NewJobInfo
    /\ summary = <<>>
    /\ unlock_summary = FALSE
    /\ output_lines = <<>>
    /\ pulled = <<>>
    /\ echoed = <<>>
    /\ source_failed = FALSE
    /\ source_error = <<>>
    /\ consulted = <<>>
    /\ token_expiry_flag = FALSE
    /\ path_check = "unchecked"
    /\ job_created = FALSE


-----------------------------------------------------------------------------
\* The per-line body of the for loop of _copy, _sync and _remove

\* Variant of UpdatePercent: re.search in place of re.match
UpdatePercent_Search(job, line) ==
    LET at == {i \in 1..Len(line) : PercentMatch(SubSeq(line, i, Len(line))).matched}
    IN  IF Contains(line, <<"%">>) /\ at # {}
        THEN [job EXCEPT !.percent_complete =
                  PercentMatch(SubSeq(line, CHOOSE i \in at : \A j \in at : i <= j,
                                      Len(line))).value]
        ELSE job

\* if "%" in output_line: ... job_info.percent_complete = float(...)
UpdatePercent(job, line) ==
    IF Contains(line, <<"%">>) /\ PercentMatch(line).matched
    THEN [job EXCEPT !.percent_complete = PercentMatch(line).value]
    ELSE job

\* the text appended to summary for one line, once unlocked
SummaryText(k, line) ==
    IF k = "sync" THEN Remove(Remove(line, "("), ")") ELSE line

\* Variant of IsUnlockLine: every kind with the test of _sync
IsUnlockLine_SyncRule(k, line) ==
    LET output_line_cleaned == lower(strip(line))
    IN  /\ startswith(output_line_cleaned, <<"job">>)
        /\ Contains(output_line_cleaned, <<"summary">>)

\* the test that sets unlock_summary
IsUnlockLine(k, line) ==
    IF k = "sync"
    THEN LET output_line_cleaned == lower(strip(line))
         IN  /\ startswith(output_line_cleaned, <<"job">>)
             /\ Contains(output_line_cleaned, <<"summary">>)
    ELSE startswith(line, <<"Job">>) /\ Contains(line, <<"summary">>)

\* Variant of AppendSummary: the unlock test made before the append
AppendSummary_UnlockFirst(k, sum, unl, line) ==
    IF unl \/ IsUnlockLine(k, line) THEN sum \o SummaryText(k, line) ELSE sum

\* if unlock_summary: summary += ...  (before the unlock test of the same line)
AppendSummary(k, sum, unl, line) ==
    IF unl THEN sum \o SummaryText(k, line) ELSE sum

\* Variant of UpdateAuth: += in place of =
UpdateAuth_Append(job, line) ==
    IF Contains(line, <<"AuthenticationFailed">>)
    THEN [job EXCEPT !.error_msg = @ \o line]
    ELSE job

\* if "AuthenticationFailed" in output_line: job_info.error_msg = output_line
UpdateAuth(job, line) ==
    IF Contains(line, <<"AuthenticationFailed">>)
    THEN [job EXCEPT !.error_msg = line]
    ELSE job

\* Variant of UpdateStatus: split(":")[1] in place of split(":")[-1]
UpdateStatus_SecondField(job, line) ==
    LET idx == {i \in 1..Len(line) : line[i] = ":"}
        first == CHOOSE i \in idx : \A j \in idx : i <= j
        later == {i \in idx : i > first}
        field == IF later = {} THEN SubSeq(line, first + 1, Len(line))
                 ELSE SubSeq(line, first + 1,
                             (CHOOSE i \in later : \A j \in later : i <= j) - 1)
    IN  IF Contains(line, <<"Final Job Status", ":">>)
        THEN [job EXCEPT !.final_job_status_msg = strip(field)]
        ELSE job

\* if "Final Job Status:" in output_line:
\*     job_info.final_job_status_msg = output_line.split(":")[-1].strip()
UpdateStatus(job, line) ==
    IF Contains(line, <<"Final Job Status", ":">>)
    THEN [job EXCEPT !.final_job_status_msg = strip(SplitLast(line, ":"))]
    ELSE job

InterpretLine(k, job, line) == UpdateStatus(UpdateAuth(UpdatePercent(job, line), line), line)

-----------------------------------------------------------------------------
\* Summary parsers (azcopy_summary): the failure counter of the kind

FailureLabel(k) ==
    CASE k = "copy" -> "Number of Transfers Failed"
      [] k = "sync" -> "Number of Copy Transfers Failed"
      [] k = "remove" -> "Number of Removals Failed"

\* the number that follows "<label>:" in the text, 0 when absent or malformed
ParseCount(text, label) ==
    LET at == {i \in 1..Len(text) - 1 : text[i] = label /\ text[i + 1] = ":"}
    IN  IF at = {} THEN 0
        ELSE LET i == CHOOSE x \in at : \A y \in at : x <= y
                 rest == lstrip(SubSeq(text, i + 2, Len(text)))
                 n == DigitRun(rest, 1)
             IN  IF n >= 1 THEN IntOf(SubSeq(rest, 1, n)) ELSE 0

\* get_transfer_copy_summary_info / get_sync_summary_info / get_remove_summary_info
get_summary_info(k, job, sum) ==
    [job EXCEPT !.number_failed = ParseCount(sum, FailureLabel(k))]

-----------------------------------------------------------------------------
\* Finalize: the decision after the summary parser

SuccessStatus == {<<"Completed">>, <<"CompletedWithSkipped">>}

FailedFragment(k, n) ==
    <<"; ", IF k = "remove" THEN "Removals failed = " ELSE "Tranfers failed = ", ToString(n)>>

GenericFragment(k) ==
    <<"; ", IF k = "remove" THEN "Error while removing data" ELSE "Error while transferring data">>

\* Variants of Finalize, each with one slip

\* the status compared without regard to case
Finalize_CaseInsensitive(k, job) ==
    IF lower(job.final_job_status_msg) \in {<<"completed">>, <<"completedwithskipped">>}
    THEN [job |-> [job EXCEPT !.completed = TRUE], raised |-> FALSE]
    ELSE IF job.number_failed > 0
    THEN [job |-> [job EXCEPT !.error_msg = @ \o FailedFragment(k, job.number_failed),
                              !.completed = FALSE],
          raised |-> TRUE]
    ELSE [job |-> [job EXCEPT !.error_msg = @ \o GenericFragment(k),
                              !.completed = FALSE],
          raised |-> TRUE]

\* the failure counter never looked at
Finalize_NoCounter(k, job) ==
    IF job.final_job_status_msg \in SuccessStatus
    THEN [job |-> [job EXCEPT !.completed = TRUE], raised |-> FALSE]
    ELSE [job |-> [job EXCEPT !.error_msg = @ \o GenericFragment(k),
                              !.completed = FALSE],
          raised |-> TRUE]

\* the raise of the last branch missing
Finalize_NoRaise(k, job) ==
    IF job.final_job_status_msg \in SuccessStatus
    THEN [job |-> [job EXCEPT !.completed = TRUE], raised |-> FALSE]
    ELSE IF job.number_failed > 0
    THEN [job |-> [job EXCEPT !.error_msg = @ \o FailedFragment(k, job.number_failed),
                              !.completed = FALSE],
          raised |-> TRUE]
    ELSE [job |-> [job EXCEPT !.error_msg = @ \o GenericFragment(k),
                              !.completed = FALSE],
          raised |-> FALSE]

\* = in place of +=
Finalize_Overwrite(k, job) ==
    IF job.final_job_status_msg \in SuccessStatus
    THEN [job |-> [job EXCEPT !.completed = TRUE], raised |-> FALSE]
    ELSE IF job.number_failed > 0
    THEN [job |-> [job EXCEPT !.error_msg = FailedFragment(k, job.number_failed),
                              !.completed = FALSE],
          raised |-> TRUE]
    ELSE [job |-> [job EXCEPT !.error_msg = GenericFragment(k),
                              !.completed = FALSE],
          raised |-> TRUE]

\* error_msg cleared on the success path
Finalize_ClearOnSuccess(k, job) ==
    IF job.final_job_status_msg \in SuccessStatus
    THEN [job |-> [job EXCEPT !.completed = TRUE, !.error_msg = <<>>], raised |-> FALSE]
    ELSE IF job.number_failed > 0
    THEN [job |-> [job EXCEPT !.error_msg = @ \o FailedFragment(k, job.number_failed),
                              !.completed = FALSE],
          raised |-> TRUE]
    ELSE [job |-> [job EXCEPT !.error_msg = @ \o GenericFragment(k),
                              !.completed = FALSE],
          raised |-> TRUE]

\* success only once the progress reached 100.0
Finalize_PercentGate(k, job) ==
    IF /\ job.final_job_status_msg \in SuccessStatus
       /\ job.percent_complete = [whole |-> 100, frac |-> <<>>]
    THEN [job |-> [job EXCEPT !.completed = TRUE], raised |-> FALSE]
    ELSE IF job.number_failed > 0
    THEN [job |-> [job EXCEPT !.error_msg = @ \o FailedFragment(k, job.number_failed),
                              !.completed = FALSE],
          raised |-> TRUE]
    ELSE [job |-> [job EXCEPT !.error_msg = @ \o GenericFragment(k),
                              !.completed = FALSE],
          raised |-> TRUE]

Finalize(k, job) ==
    IF \/ job.final_job_status_msg = <<"Completed">>
       \/ job.final_job_status_msg = <<"CompletedWithSkipped">>
    THEN [job |-> [job EXCEPT !.completed = TRUE], raised |-> FALSE]
    ELSE IF job.number_failed > 0
    THEN [job |-> [job EXCEPT !.error_msg = @ \o FailedFragment(k, job.number_failed),
                              !.completed = FALSE],
          raised |-> TRUE]
    ELSE [job |-> [job EXCEPT !.error_msg = @ \o GenericFragment(k),
                              !.completed = FALSE],
          raised |-> TRUE]

-----------------------------------------------------------------------------
\* except Exception as e: of _copy, _sync and _remove

\* Variant of HandlerToken: the source looked at before the destination
HandlerToken_SourceFirst(k, s, d) ==
    IF k = "remove" THEN d.sas_token
    ELSE IF s.type = "sas" THEN s.sas_token
    ELSE IF d.type = "sas" THEN d.sas_token
    ELSE ""

\* the token handed to is_sas_token_session_expired
HandlerToken(k, s, d) ==
    IF k = "remove" THEN d.sas_token
    ELSE IF d.type = "sas" THEN d.sas_token
    ELSE IF s.type = "sas" THEN s.sas_token
    ELSE ""

\* Variant of ExceptHandler: the expiry answer ignored
ExceptHandler_NoExpiryCheck(k, job, e, flag) ==
    IF k = "sync"
    THEN [job EXCEPT !.completed = FALSE]
    ELSE [job EXCEPT !.error_msg = e, !.completed = FALSE]

\* Variant of ExceptHandler: _sync with the except clause of _copy
ExceptHandler_SyncDiagnoses(k, job, e, flag) ==
    [job EXCEPT !.error_msg = IF flag = TRUE THEN <<"SAS token is expired">> ELSE e,
                !.completed = FALSE]

ExceptHandler(k, job, e, flag) ==
    IF k = "sync"
    THEN [job EXCEPT !.completed = FALSE]
    ELSE [job EXCEPT !.error_msg = IF flag = TRUE THEN <<"SAS token is expired">> ELSE e,
                     !.completed = FALSE]

-----------------------------------------------------------------------------
\* json.loads, on the lexemes of a text

\* decoded JSON values: a str, a number or an object (its members in order,
\* each <<key, value>>)
JStr(s) == [type |-> "str", s |-> s, n |-> 0, o |-> <<>>]

JNum(n) == [type |-> "num", s |-> <<>>, n |-> n, o |-> <<>>]

JObj(o) == [type |-> "obj", s |-> <<>>, n |-> 0, o |-> o]

\* the JSON string literals of the modelled streams and the str each decodes to
StringLiteral ==
    [t \in {"\"MessageType\"", "\"MessageContent\"", "\"ListObject\"",
            "\"EndOfJob\"", "\"Info\"", "\"name\"", "\"a.txt\"", "\"b.txt\"",
            "\"\"", "\"not json\"", "\"{\\\"name\\\":\\\"a.txt\\\"}\"",
            "\"AuthenticationFailed\""} |->
        CASE t = "\"MessageType\"" -> <<"MessageType">>
          [] t = "\"MessageContent\"" -> <<"MessageContent">>
          [] t = "\"ListObject\"" -> <<"ListObject">>
          [] t = "\"EndOfJob\"" -> <<"EndOfJob">>
          [] t = "\"Info\"" -> <<"Info">>
          [] t = "\"name\"" -> <<"name">>
          [] t = "\"a.txt\"" -> <<"a.txt">>
          [] t = "\"b.txt\"" -> <<"b.txt">>
          [] t = "\"\"" -> <<>>
          [] t = "\"not json\"" -> <<"not", " ", "json">>
          [] t = "\"{\\\"name\\\":\\\"a.txt\\\"}\"" ->
                 <<"{", "\"name\"", ":", "\"a.txt\"", "}">>
          [] t = "\"AuthenticationFailed\"" -> <<"AuthenticationFailed">>]

IsStringLiteral(t) == t \in DOMAIN StringLiteral

\* a JSON scalar: a string literal or a run of digits without a leading zero
ParseScalar(t) ==
    IF Len(t) = 1 /\ IsStringLiteral(t[1])
    THEN [ok |-> TRUE, val |-> JStr(StringLiteral[t[1]])]
    ELSE IF Len(t) >= 1 /\ DigitRun(t, 1) = Len(t) /\ (Len(t) = 1 \/ t[1] # "0")
    THEN [ok |-> TRUE, val |-> JNum(IntOf(t))]
    ELSE [ok |-> FALSE, val |-> JNum(0)]

\* the members of an object: key ":" scalar, separated by ","
RECURSIVE ParseMembers(_, _)
ParseMembers(t, acc) ==
    IF Len(t) < 3 \/ ~IsStringLiteral(t[1]) \/ t[2] # ":"
    THEN [ok |-> FALSE, val |-> JObj(<<>>)]
    ELSE LET n == IF t[3] \in Digits THEN DigitRun(t, 3) ELSE 1
             v == ParseScalar(SubSeq(t, 3, 2 + n))
             more == SubSeq(t, 3 + n, Len(t))
             got == Append(acc, <<StringLiteral[t[1]], v.val>>)
         IN  IF ~v.ok THEN [ok |-> FALSE, val |-> JObj(<<>>)]
             ELSE IF more = <<>> THEN [ok |-> TRUE, val |-> JObj(got)]
             ELSE IF more[1] = "," THEN ParseMembers(Tail(more), got)
             ELSE [ok |-> FALSE, val |-> JObj(<<>>)]

\* json.loads(text): ok is FALSE where it raises json.JSONDecodeError
JsonLoads(text) ==
    LET t == SelectSeq(text, LAMBDA x : x \notin Whitespace)
    IN  IF Len(t) >= 2 /\ t[1] = "{" /\ t[Len(t)] = "}"
        THEN IF Len(t) = 2 THEN [ok |-> TRUE, val |-> JObj(<<>>)]
             ELSE ParseMembers(SubSeq(t, 2, Len(t) - 1), <<>>)
        ELSE ParseScalar(t)

\* dict.get(key, default)
Get(obj, key, default) ==
    LET at == {i \in 1..Len(obj.o) : obj.o[i][1] = key}
    IN  IF at = {} THEN default
        ELSE obj.o[CHOOSE i \in at : \A j \in at : j <= i][2]

\* None, the default of json_obj.get("MessageType")
JNone == [type |-> "none", s |-> <<>>, n |-> 0, o |-> <<>>]

\* truth value of a decoded value
Truthy(v) ==
    CASE v.type = "str" -> v.s # <<>>
      [] v.type = "num" -> v.n # 0
      [] v.type = "obj" -> v.o # <<>>
      [] OTHER -> FALSE

\* Variant of DecodeLine: the envelope of a ListObject appended, not its
\* MessageContent
DecodeLine_Envelope(raw) ==
    LET line == strip(raw)
        skip == [type_error |-> FALSE, items |-> <<>>]
    IN  IF line # <<>> /\ startswith(line, <<"{">>) /\ endswith(line, <<"}">>)
        THEN LET json_obj == JsonLoads(line)
             IN  IF ~json_obj.ok THEN skip
                 ELSE IF Get(json_obj.val, <<"MessageType">>, JNone) # JStr(<<"EndOfJob">>)
                 THEN [type_error |-> FALSE, items |-> <<json_obj.val>>]
                 ELSE skip
        ELSE skip

\* the body of "for line in output_lines" of _list: the items the line
\* contributes, or the TypeError json.loads raises on a non-str argument
DecodeLine(raw) ==
    LET line == strip(raw)
        skip == [type_error |-> FALSE, items |-> <<>>]
    IN  IF line # <<>> /\ startswith(line, <<"{">>) /\ endswith(line, <<"}">>)
        THEN LET json_obj == JsonLoads(line)
             IN  IF ~json_obj.ok THEN skip
                 ELSE IF Get(json_obj.val, <<"MessageType">>, JNone) = JStr(<<"ListObject">>)
                 THEN LET message_content == Get(json_obj.val, <<"MessageContent">>, JStr(<<>>))
                      IN  IF ~Truthy(message_content) THEN skip
                          ELSE IF message_content.type # "str"
                          THEN [type_error |-> TRUE, items |-> <<>>]
                          ELSE LET file_info == JsonLoads(message_content.s)
                               IN  IF file_info.ok
                                   THEN [type_error |-> FALSE, items |-> <<file_info.val>>]
                                   ELSE skip
                 ELSE IF Get(json_obj.val, <<"MessageType">>, JNone) # JStr(<<"EndOfJob">>)
                 THEN [type_error |-> FALSE, items |-> <<json_obj.val>>]
                 ELSE skip
        ELSE skip

\* the decode pass over output_lines from line i on, with the local items so far
RECURSIVE DecodePass(_, _, _)
DecodePass(lines, i, items) ==
    IF i > Len(lines) THEN [failed |-> FALSE, items |-> items]
    ELSE LET r == DecodeLine(lines[i])
         IN  IF r.type_error THEN [failed |-> TRUE, items |-> items]
             ELSE DecodePass(lines, i + 1, items \o r.items)

\* "\n".join(output_lines)
RECURSIVE Join(_)
Join(lines) ==
    IF lines = <<>> THEN <<>>
    ELSE IF Len(lines) = 1 THEN lines[1]
    ELSE lines[1] \o <<"\n">> \o Join(Tail(lines))

\* Variant of ListResult: the items decoded before a failure of the pass kept
ListResult_KeepPartial(job, lines, ot) ==
    LET joined == [job EXCEPT !.output_text = Join(lines)]
        pass == DecodePass(lines, 1, <<>>)
        parsed == IF ot = "json"
                  THEN [joined EXCEPT !.items = pass.items]
                  ELSE joined
    IN  [parsed EXCEPT !.completed = TRUE, !.final_job_status_msg = <<"Completed">>]

\* _list after the for loop: output_text, the JSON pass (job_info.items is
\* assigned only when the whole pass went through), completed
ListResult(job, lines, ot) ==
    LET joined == [job EXCEPT !.output_text = Join(lines)]
        pass == DecodePass(lines, 1, <<>>)
        parsed == IF ot = "json" /\ ~pass.failed
                  THEN [joined EXCEPT !.items = pass.items]
                  ELSE joined
    IN  [parsed EXCEPT !.completed = TRUE, !.final_job_status_msg = <<"Completed">>]

\* except Exception as e: of _list
ListExcept(job, e) ==
    [job EXCEPT !.error_msg = IF job.error_msg = <<>> THEN e ELSE @,
                !.completed = FALSE]

\* Variant of ListLine: the authentication error recorded, the raise missing
ListLine_NoAbort(job, line) ==
    IF Contains(line, <<"AuthenticationFailed">>)
    THEN [job |-> [job EXCEPT !.error_msg = line, !.completed = FALSE], raised |-> FALSE]
    ELSE [job |-> job, raised |-> FALSE]

\* the authentication check of the for loop of _list: the raise lands in the
\* except clause, which raises again
ListLine(job, line) ==
    IF Contains(line, <<"AuthenticationFailed">>)
    THEN [job |-> ListExcept([job EXCEPT !.error_msg = line, !.completed = FALSE], line),
          raised |-> TRUE]
    ELSE [job |-> job, raised |-> FALSE]

-----------------------------------------------------------------------------
\* Actions

Ended == pc \in {"returned", "raised"}

\* The caller builds the location and option objects of one call
\* (AzRemoteSASLocation.__init__ raises on an expired token).
Prepare(k, s, d, ot) ==
    /\ UNCHANGED <<path_check, job_created, client, remove_options, calls>>
    /\ pc = "idle"
    /\ kind' = k
    /\ src' = s
    /\ dest' = d
    /\ output_type' = ot
    /\ IF \E loc \in Locations(k, s, d) : SasCheckRaises(loc)
       THEN /\ pc' = "raised"
            /\ raise_point' = "construct"
            /\ raised_msg' = <<"SAS token is expired">>
       ELSE /\ pc' = "constructed"
            /\ UNCHANGED <<raise_point, raised_msg>>
    /\ UNCHANGED <<expired, job_info, summary, unlock_summary, output_lines,
                   pulled, echoed, source_failed, source_error, consulted,
                   token_expiry_flag>>

\* Time passes: the predicate starts reporting token t expired.
TokenExpires(t) ==
    /\ UNCHANGED <<path_check, job_created, client, remove_options, calls>>
    /\ ~Ended
    /\ t \notin expired
    /\ expired' = expired \cup {t}
    /\ UNCHANGED <<pc, raise_point, raised_msg, kind, src, dest, output_type,
                   job_info, summary, unlock_summary, output_lines, pulled,
                   echoed, source_failed, source_error, consulted,
                   token_expiry_flag>>

\* Variant of Call: the path check made after the argument list is built
Call_PathCheckLast(path_exists) ==
    /\ pc = "constructed"
    /\ kind # "sync" => path_exists
    /\ UNCHANGED <<client, remove_options, calls>>
    /\ path_check' = IF kind # "sync" THEN "unchecked"
                     ELSE IF path_exists THEN "exists" ELSE "missing"
    /\ IF \E loc \in Locations(kind, src, dest) : SasCheckRaises(loc)
       THEN /\ pc' = "raised"
            /\ raise_point' = "cmd"
            /\ raised_msg' = <<"SAS token is expired">>
            /\ UNCHANGED <<job_info, job_created>>
       ELSE IF kind = "sync" /\ ~path_exists
       THEN /\ pc' = "raised"
            /\ raise_point' = "precondition"
            /\ raised_msg' = <<"path", " does not exist. For sync operation, the given path needs to exist">>
            /\ UNCHANGED <<job_info, job_created>>
       ELSE /\ pc' = "stream"
            /\ job_info' = NewJobInfo
            /\ job_created' = TRUE
            /\ UNCHANGED <<raise_point, raised_msg>>
    /\ UNCHANGED <<kind, src, dest, output_type, expired, summary,
                   unlock_summary, output_lines, pulled, echoed, source_failed,
                   source_error, consulted, token_expiry_flag>>

\* Variant of Call: str(location) without the expiry check
Call_NoStrCheck(path_exists) ==
    /\ pc = "constructed"
    /\ kind # "sync" => path_exists
    /\ UNCHANGED <<client, remove_options, calls>>
    /\ path_check' = IF kind # "sync" THEN "unchecked"
                     ELSE IF path_exists THEN "exists" ELSE "missing"
    /\ IF kind = "sync" /\ ~path_exists
       THEN /\ pc' = "raised"
            /\ raise_point' = "precondition"
            /\ raised_msg' = <<"path", " does not exist. For sync operation, the given path needs to exist">>
            /\ UNCHANGED <<job_info, job_created>>
       ELSE /\ pc' = "stream"
            /\ job_info' = NewJobInfo
            /\ job_created' = TRUE
            /\ UNCHANGED <<raise_point, raised_msg>>
    /\ UNCHANGED <<kind, src, dest, output_type, expired, summary,
                   unlock_summary, output_lines, pulled, echoed, source_failed,
                   source_error, consulted, token_expiry_flag>>

\* The public method up to the start of the line source: the os.path.exists
\* check of sync_to_*_location, the argument list (str of each location), the
\* new job record.
Call(path_exists) ==
    /\ pc = "constructed"
    /\ kind # "sync" => path_exists
    /\ UNCHANGED <<client, remove_options, calls>>
    /\ path_check' = IF kind # "sync" THEN "unchecked"
                     ELSE IF path_exists THEN "exists" ELSE "missing"
    /\ IF kind = "sync" /\ ~path_exists
       THEN /\ pc' = "raised"
            /\ raise_point' = "precondition"
            /\ raised_msg' = <<"path", " does not exist. For sync operation, the given path needs to exist">>
            /\ UNCHANGED <<job_info, job_created>>
       ELSE IF \E loc \in Locations(kind, src, dest) : SasCheckRaises(loc)
       THEN /\ pc' = "raised"
            /\ raise_point' = "cmd"
            /\ raised_msg' = <<"SAS token is expired">>
            /\ UNCHANGED <<job_info, job_created>>
       ELSE /\ pc' = "stream"
            /\ job_info' = NewJobInfo
            /\ job_created' = TRUE
            /\ UNCHANGED <<raise_point, raised_msg>>
    /\ UNCHANGED <<kind, src, dest, output_type, expired, summary,
                   unlock_summary, output_lines, pulled, echoed, source_failed,
                   source_error, consulted, token_expiry_flag>>

\* One iteration of "for output_line in execute_command(cmd)"; for _list an
\* AuthenticationFailed line raises into the except clause, which re-raises.
ConsumeLine(line) ==
    /\ UNCHANGED <<path_check, job_created, client, remove_options, calls>>
    /\ pc = "stream"
    /\ Len(pulled) < MaxLines
    /\ pulled' = Append(pulled, line)
    /\ echoed' = Append(echoed, line)
    /\ IF kind = "list"
       THEN /\ output_lines' = Append(output_lines, rstrip(line))
            /\ job_info' = ListLine(job_info, line).job
            /\ IF ListLine(job_info, line).raised
               THEN /\ pc' = "raised"
                    /\ raise_point' = "auth"
                    /\ raised_msg' = job_info'.error_msg
               ELSE UNCHANGED <<pc, raise_point, raised_msg>>
            /\ UNCHANGED <<summary, unlock_summary>>
       ELSE /\ job_info' = InterpretLine(kind, job_info, line)
            /\ summary' = AppendSummary(kind, summary, unlock_summary, line)
            /\ unlock_summary' = (unlock_summary \/ IsUnlockLine(kind, line))
            /\ UNCHANGED <<output_lines, pc, raise_point, raised_msg>>
    /\ UNCHANGED <<kind, src, dest, output_type, expired, source_failed,
                   source_error, consulted, token_expiry_flag>>

\* The rest of the call once the job record is final
Finish(r) ==
    /\ job_info' = r.job
    /\ pc' = IF r.raised THEN "raised" ELSE "returned"
    /\ raise_point' = IF r.raised THEN "finalize" ELSE "none"
    /\ raised_msg' = IF r.raised THEN r.job.error_msg ELSE <<>>

\* execute_command raises (the process cannot start, or exits abnormally):
\* the except clause, then the summary parser and finalize.
SourceFails(e, flag) ==
    /\ UNCHANGED <<path_check, job_created, client, remove_options, calls>>
    /\ pc = "stream"
    /\ source_failed' = TRUE
    /\ source_error' = e
    /\ IF kind = "list"
       THEN /\ job_info' = ListExcept(job_info, e)
            /\ pc' = "raised"
            /\ raise_point' = "stream"
            /\ raised_msg' = job_info'.error_msg
            /\ flag = FALSE
            /\ UNCHANGED <<consulted, token_expiry_flag>>
       ELSE IF kind = "sync"
       THEN /\ Finish(Finalize(kind, get_summary_info(kind,
                        ExceptHandler(kind, job_info, e, FALSE), summary)))
            /\ flag = FALSE
            /\ UNCHANGED <<consulted, token_expiry_flag>>
       ELSE LET token == HandlerToken(kind, src, dest)
            IN  /\ token # "" => flag = is_sas_token_session_expired(token)
                /\ consulted' = Append(consulted, token)
                /\ token_expiry_flag' = flag
                /\ Finish(Finalize(kind, get_summary_info(kind,
                        ExceptHandler(kind, job_info, e, flag), summary)))
    /\ UNCHANGED <<kind, src, dest, output_type, expired, summary,
                   unlock_summary, output_lines, pulled, echoed>>

\* The line source is exhausted: the summary parser and finalize (for _list
\* the join, the JSON pass and the unconditional success).
StreamEnds ==
    /\ UNCHANGED <<path_check, job_created, client, remove_options, calls>>
    /\ pc = "stream"
    /\ IF kind = "list"
       THEN /\ job_info' = ListResult(job_info, output_lines, output_type)
            /\ pc' = "returned"
            /\ UNCHANGED <<raise_point, raised_msg>>
       ELSE Finish(Finalize(kind, get_summary_info(kind, job_info, summary)))
    /\ UNCHANGED <<kind, src, dest, output_type, expired, summary,
                   unlock_summary, output_lines, pulled, echoed, source_failed,
                   source_error, consulted, token_expiry_flag>>

-----------------------------------------------------------------------------
\* Two concurrent remove calls on one client, given the same AzRemoveOptions
\* object and the same location; each step is one statement of the call.

SingleCallVars ==
    <<pc, raise_point, raised_msg, kind, src, dest, output_type, job_info,
      summary, unlock_summary, output_lines, pulled, echoed, source_failed,
      source_error, consulted, token_expiry_flag, path_check, job_created>>

SharedLocation == SasLoc("tokA")

\* The caller constructs the options object.
MakeRemoveOptions(recursive) ==
    /\ ~remove_options.made
    /\ remove_options' = NewRemoveOptions(recursive)
    /\ UNCHANGED <<SingleCallVars, expired, client, calls>>

\* A thread enters remove_single_blob or remove_directory_recursive.
Invoke(i, m) ==
    /\ remove_options.made
    /\ calls[i].pc = "idle"
    /\ calls' = [calls EXCEPT ![i].method = m,
                              ![i].pc = IF m = "remove_directory_recursive"
                                        THEN "entered" ELSE "in_remove"]
    /\ UNCHANGED <<SingleCallVars, expired, client, remove_options>>

\* Variant of SetRecursive: the assignment left out
SetRecursive_Skip(i) ==
    /\ calls[i].pc = "entered"
    /\ calls' = [calls EXCEPT ![i].pc = "in_remove"]
    /\ UNCHANGED <<SingleCallVars, expired, client, remove_options>>

\* remove_directory_recursive: remove_options.recursive = True
SetRecursive(i) ==
    /\ calls[i].pc = "entered"
    /\ remove_options' = [remove_options EXCEPT !.recursive = TRUE, !.writer = i]
    /\ calls' = [calls EXCEPT ![i].pc = "in_remove"]
    /\ UNCHANGED <<SingleCallVars, expired, client>>

\* _remove up to the try: cmd from self.exe_to_use, str(location) and
\* remove_options.get_options_list(), then the new job record.
BuildRemoveCmd(i) ==
    /\ calls[i].pc = "in_remove"
    /\ IF SasCheckRaises(SharedLocation)
       THEN calls' = [calls EXCEPT ![i].pc = "raised_cmd"]
       ELSE calls' = [calls EXCEPT ![i].pc = "stream",
                                   ![i].cmd_recursive = remove_options.recursive,
                                   ![i].options_from = remove_options.writer,
                                   ![i].job = NewJobInfo]
    /\ UNCHANGED <<SingleCallVars, expired, client, remove_options>>

\* One iteration of the for loop of _remove in invocation i.
RemoveLine(i, line) ==
    /\ calls[i].pc = "stream"
    /\ Len(calls[i].pulled) < MaxLines
    /\ calls' = [calls EXCEPT
                    ![i].pulled = Append(@, line),
                    ![i].job = InterpretLine("remove", @, line),
                    ![i].summary = AppendSummary("remove", @, calls[i].unlock_summary, line),
                    ![i].unlock_summary = (@ \/ IsUnlockLine("remove", line))]
    /\ UNCHANGED <<SingleCallVars, expired, client, remove_options>>

\* the end of invocation i once its job record is final
RemoveFinish(i, r) ==
    calls' = [calls EXCEPT ![i].job = r.job,
                           ![i].pc = IF r.raised THEN "raised" ELSE "returned"]

\* execute_command raises in invocation i.
RemoveFails(i, e, flag) ==
    /\ calls[i].pc = "stream"
    /\ flag = is_sas_token_session_expired(SharedLocation.sas_token)
    /\ RemoveFinish(i, Finalize("remove", get_summary_info("remove",
            ExceptHandler("remove", calls[i].job, e, flag), calls[i].summary)))
    /\ UNCHANGED <<SingleCallVars, expired, client, remove_options>>

\* The line source of invocation i is exhausted.
RemoveEnds(i) ==
    /\ calls[i].pc = "stream"
    /\ RemoveFinish(i, Finalize("remove", get_summary_info("remove",
            calls[i].job, calls[i].summary)))
    /\ UNCHANGED <<SingleCallVars, expired, client, remove_options>>

\* Time passes during the two calls.
SharedTokenExpires ==
    /\ \E i \in Invocations : calls[i].pc \notin {"returned", "raised", "raised_cmd"}
    /\ SharedLocation.sas_token \notin expired
    /\ expired' = expired \cup {SharedLocation.sas_token}
    /\ UNCHANGED <<SingleCallVars, client, remove_options, calls>>

-----------------------------------------------------------------------------
\* The inputs of the modelled runs

Kinds == {"copy", "sync", "list", "remove"}

\* the locations a caller passes: any pair for copy and sync, a Remote-SAS
\* location for list and remove
LocsOf(k, locs) ==
    IF k \in {"list", "remove"}
    THEN {<<LocalLoc, d>> : d \in {l \in locs : l.type = "sas"}}
    ELSE locs \X locs

OutputTypesOf(k) == IF k = "list" THEN {"text", "json"} ELSE {"text"}

SourceErrors ==
    {<<"azcopy", " ", "exited with code 1">>,
     <<"[Errno 2] No such file or directory: ", "azcopy">>}

\* lines of progress, summary and terminal status
L_JobSummary == <<"Job", " ", "abc", " ", "summary", "\n">>

L_Failed(k) ==
    <<FailureLabel(IF k = "list" THEN "copy" ELSE k), ":", " ", "2", "\n">>

L_Completed == <<"Final Job Status", ":", " ", "Completed", "\n">>

L_Skipped == <<"Final Job Status", ":", " ", "CompletedWithSkipped", "\n">>

L_Errors == <<"Final Job Status", ":", " ", "CompletedWithErrors", "\n">>

L_Lower == <<"Final Job Status", ":", " ", "completed", "\n">>

L_Auth == <<"RESPONSE", " ", "403", ":", " ", "AuthenticationFailed", "\n">>

L_AuthServer ==
    <<"AuthenticationFailed", ":", " ", "Server failed to authenticate the request", "\n">>

StatusLines(k) ==
    {L_JobSummary, L_Failed(k), L_Completed, L_Skipped, L_Errors, L_Lower, L_Auth,
     L_AuthServer}

StatusLocs == {LocalLoc, SasLoc("tokA"), SasLoc("")}

Next ==
    \/ \E k \in Kinds : \E p \in LocsOf(k, StatusLocs) : \E ot \in OutputTypesOf(k) :
           Prepare(k, p[1], p[2], ot)
    \/ \E t \in {"tokA"} : TokenExpires(t)
    \/ \E path_exists \in BOOLEAN : Call(path_exists)
    \/ \E line \in StatusLines(kind) : ConsumeLine(line)
    \/ \E e \in SourceErrors : \E flag \in BOOLEAN : SourceFails(e, flag)
    \/ StreamEnds

Spec == Init /\ [][Next]_vars

\* lines around the summary block
L_SyncOnlySummary == <<" ", "job", " ", "1", " ", "Summary", "\n">>

L_Elapsed == <<"Elapsed Time", " ", "(", "Minutes", ")", ":", " ", "0", ".", "0", "3", "\n">>

L_Info == <<"INFO", ":", " ", "Scanning", "\n">>

L_JobStarted == <<"Job", " ", "abc", " ", "has started", "\n">>

L_UpperSummary == <<"JOB", " ", "x", " ", "SUMMARY", "\n">>

L_CapitalSummary == <<"Job", " ", "x", " ", "Summary", "\n">>

SummaryLines ==
    {L_JobSummary, L_SyncOnlySummary, L_UpperSummary, L_CapitalSummary, L_Elapsed,
     L_Info, L_JobStarted, L_Completed}

SummaryLocs == {LocalLoc, SasLoc("tokA")}

NextSummary ==
    \/ \E k \in Kinds : \E p \in LocsOf(k, SummaryLocs) : \E ot \in OutputTypesOf(k) :
           Prepare(k, p[1], p[2], ot)
    \/ \E t \in {"tokA"} : TokenExpires(t)
    \/ \E path_exists \in BOOLEAN : Call(path_exists)
    \/ \E line \in SummaryLines : ConsumeLine(line)
    \/ \E e \in SourceErrors : \E flag \in BOOLEAN : SourceFails(e, flag)
    \/ StreamEnds

SpecSummary == Init /\ [][NextSummary]_vars

\* progress lines
L_Pct10 == <<"1", "0", ".", "0", " ", "%", ",", " ", "1", " ", "Done", "\n">>

L_Pct5_50 == <<"5", ".", "5", "0", " ", "%", ",", " ", "2", " ", "Done", "\n">>

L_PctIndented == <<" ", "7", ".", "0", " ", "%", ",", " ", "Done", "\n">>

L_PctInteger == <<"1", "0", "0", " ", "%", ",", " ", "Done", "\n">>

L_PctInside == <<"speed", " ", "3", ".", "0", " ", "%", ",", " ", "Done", "\n">>

PercentLines == {L_Pct10, L_Pct5_50, L_PctIndented, L_PctInteger, L_PctInside, L_Info, L_Completed}

NextPercent ==
    \/ \E k \in Kinds : \E p \in LocsOf(k, SummaryLocs) : \E ot \in OutputTypesOf(k) :
           Prepare(k, p[1], p[2], ot)
    \/ \E t \in {"tokA"} : TokenExpires(t)
    \/ \E path_exists \in BOOLEAN : Call(path_exists)
    \/ \E line \in PercentLines : ConsumeLine(line)
    \/ \E e \in SourceErrors : \E flag \in BOOLEAN : SourceFails(e, flag)
    \/ StreamEnds

SpecPercent == Init /\ [][NextPercent]_vars

\* progress lines among status, summary and authentication lines
L_Pct100 ==
    <<"1", "0", "0", ".", "0", " ", "%", ",", " ", "2", " ", "Done", ",", " ", "0", " ",
      "Failed", "\n">>

ProgressLines(k) ==
    {L_Pct10, L_Pct100, L_JobSummary, L_Failed(k), L_Completed, L_Errors, L_Auth}

NextProgress ==
    \/ \E k \in Kinds : \E p \in LocsOf(k, SummaryLocs) : \E ot \in OutputTypesOf(k) :
           Prepare(k, p[1], p[2], ot)
    \/ \E t \in {"tokA"} : TokenExpires(t)
    \/ \E path_exists \in BOOLEAN : Call(path_exists)
    \/ \E line \in ProgressLines(kind) : ConsumeLine(line)
    \/ \E e \in SourceErrors : \E flag \in BOOLEAN : SourceFails(e, flag)
    \/ StreamEnds

SpecProgress == Init /\ [][NextProgress]_vars

\* calls between two Remote-SAS locations with different tokens
TokenLocs == {LocalLoc, SasLoc("tokA"), SasLoc("tokB"), SasLoc("")}

TokenLines == {L_Completed, L_Auth}

NextTokens ==
    \/ \E k \in Kinds : \E p \in LocsOf(k, TokenLocs) : \E ot \in OutputTypesOf(k) :
           Prepare(k, p[1], p[2], ot)
    \/ \E t \in {"tokA", "tokB"} : TokenExpires(t)
    \/ \E path_exists \in BOOLEAN : Call(path_exists)
    \/ \E line \in TokenLines : ConsumeLine(line)
    \/ \E e \in SourceErrors : \E flag \in BOOLEAN : SourceFails(e, flag)
    \/ StreamEnds

SpecTokens == Init /\ [][NextTokens]_vars

\* terminal status lines
L_StatusTwoColons == <<"Final Job Status", ":", " ", "Completed", ":", " ", "x", "\n">>

L_StatusInside ==
    <<"INFO", ":", " ", "Final Job Status", ":", "\t", "Failed", " ", "early", " ", "\n">>

L_StatusNoColon == <<"Final Job Status", " ", "Completed", "\n">>

L_StatusEmpty == <<"Final Job Status", ":", "\n">>

FinalStatusLines ==
    {L_Completed, L_Errors, L_StatusTwoColons, L_StatusInside, L_StatusNoColon,
     L_StatusEmpty, L_Info}

NextStatus ==
    \/ \E k \in Kinds : \E p \in LocsOf(k, SummaryLocs) : \E ot \in OutputTypesOf(k) :
           Prepare(k, p[1], p[2], ot)
    \/ \E t \in {"tokA"} : TokenExpires(t)
    \/ \E path_exists \in BOOLEAN : Call(path_exists)
    \/ \E line \in FinalStatusLines : ConsumeLine(line)
    \/ \E e \in SourceErrors : \E flag \in BOOLEAN : SourceFails(e, flag)
    \/ StreamEnds

SpecStatus == Init /\ [][NextStatus]_vars

\* two threads removing through one client
RemoveMethods == {"remove_single_blob", "remove_directory_recursive"}

ConcurrentLines == {L_Completed, L_Auth}

NextConcurrent ==
    \/ \E r \in BOOLEAN : MakeRemoveOptions(r)
    \/ \E i \in Invocations : \E m \in RemoveMethods : Invoke(i, m)
    \/ \E i \in Invocations : SetRecursive(i)
    \/ \E i \in Invocations : BuildRemoveCmd(i)
    \/ \E i \in Invocations : \E line \in ConcurrentLines : RemoveLine(i, line)
    \/ \E i \in Invocations : \E e \in SourceErrors : \E flag \in BOOLEAN :
           RemoveFails(i, e, flag)
    \/ \E i \in Invocations : RemoveEnds(i)
    \/ SharedTokenExpires

SpecConcurrent == Init /\ [][NextConcurrent]_vars

\* NDJSON lines of azcopy list --output-type json
J_ListA ==
    <<"{", "\"MessageType\"", ":", "\"ListObject\"", ",", "\"MessageContent\"", ":",
      "\"{\\\"name\\\":\\\"a.txt\\\"}\"", "}", "\n">>

J_EndOfJob == <<"{", "\"MessageType\"", ":", "\"EndOfJob\"", "}", "\n">>

J_Info ==
    <<"{", "\"MessageType\"", ":", "\"Info\"", ",", "\"MessageContent\"", ":",
      "\"not json\"", "}", "\n">>

J_NoType == <<" ", "{", "\"name\"", ":", " ", "\"b.txt\"", "}", "\n">>

J_Broken == <<"{", "\"MessageType\"", "}", "\n">>

J_EmptyContent ==
    <<"{", "\"MessageType\"", ":", "\"ListObject\"", ",", "\"MessageContent\"", ":",
      "\"\"", "}", "\n">>

J_BadContent ==
    <<"{", "\"MessageType\"", ":", "\"ListObject\"", ",", "\"MessageContent\"", ":",
      "\"not json\"", "}", "\n">>

J_NumContent ==
    <<"{", "\"MessageType\"", ":", "\"ListObject\"", ",", "\"MessageContent\"", ":",
      "7", "}", "\n">>

ListLines ==
    {J_ListA, J_EndOfJob, J_Info, J_NoType, J_Broken, J_EmptyContent, J_BadContent,
     J_NumContent, L_Info, L_Auth}

ListLocs == {SasLoc("tokA")}

NextList ==
    \/ \E k \in Kinds : \E p \in LocsOf(k, ListLocs) : \E ot \in OutputTypesOf(k) :
           Prepare(k, p[1], p[2], ot)
    \/ \E t \in {"tokA"} : TokenExpires(t)
    \/ \E path_exists \in BOOLEAN : Call(path_exists)
    \/ \E line \in ListLines : ConsumeLine(line)
    \/ \E e \in SourceErrors : \E flag \in BOOLEAN : SourceFails(e, flag)
    \/ StreamEnds

SpecList == Init /\ [][NextList]_vars

-----------------------------------------------------------------------------
\* Properties

\* the call ended after its job record was created
EndedWithJob == Ended /\ raise_point \notin {"construct", "precondition", "cmd"}

\* the finalize fragments as the documentation words them
C_FailedText(k, n) ==
    <<"; ", IF k = "remove" THEN "Removals failed = " ELSE "Tranfers failed = ", ToString(n)>>

C_GenericText(k) ==
    <<"; ", IF k = "remove" THEN "Error while removing data" ELSE "Error while transferring data">>

C_HasAuth(line) == \E i \in 1..Len(line) : line[i] = "AuthenticationFailed"

\* the last line of h that contains AuthenticationFailed, "" if none
C_LastAuthLine(h) ==
    LET at == {i \in 1..Len(h) : C_HasAuth(h[i])}
    IN  IF at = {} THEN <<>> ELSE h[CHOOSE i \in at : \A j \in at : j <= i]

\* C1: when a call ends (return or raise), for every kind and with or without
\* a line-source failure, completed is true exactly when final_job_status_msg
\* equals "Completed" or "CompletedWithSkipped" (exact equality).
C1_CompletedIffSuccessStatus ==
    EndedWithJob =>
        (job_info.completed <=>
            job_info.final_job_status_msg \in {<<"Completed">>, <<"CompletedWithSkipped">>})

C1_Witness ==
    /\ pc = "raised"
    /\ kind = "remove"
    /\ source_failed
    /\ job_info.final_job_status_msg = <<"completed">>
    /\ ~job_info.completed

C3_ReturnOnlyCompleted ==
    /\ pc = "returned" => job_info.completed
    /\ Ended => (pc = "raised") # (pc = "returned" /\ job_info.completed)
    /\ pc = "raised" => raise_point # "none"

C3_Witness ==
    /\ pc = "returned"
    /\ kind = "sync"
    /\ job_info.completed
    /\ Len(pulled) = MaxLines

\* C4 as stated: for copy, sync and remove a line-source failure, after any
\* prefix of lines, ends the call with completed false.
C4_Original ==
    (EndedWithJob /\ kind \in JobKinds /\ source_failed) => ~job_info.completed

\* the call has a Remote-SAS endpoint whose token the except clause inspects
C5_Case ==
    /\ EndedWithJob
    /\ source_failed
    /\ \/ kind = "remove"
       \/ kind = "copy" /\ (src.type = "sas" \/ dest.type = "sas")

\* C5 as stated: after a line-source failure the call ends with error_msg
\* "SAS token is expired" and completed false when the predicate reports the
\* token expired, and with error_msg the raw failure text otherwise.
C5_Original ==
    C5_Case =>
        IF token_expiry_flag
        THEN job_info.error_msg = <<"SAS token is expired">> /\ ~job_info.completed
        ELSE job_info.error_msg = source_error

\* C5 amended: after a line-source failure in remove (or copy with a
\* Remote-SAS endpoint) the except clause asks the predicate about an
\* endpoint's token and records "SAS token is expired" if it reports expired,
\* the raw failure text otherwise; when the call raises, error_msg is that text
\* followed by the finalize fragment, completed is false and the message raised
\* is error_msg; when the call returns, error_msg is that text unchanged.
C5_ExpiredTokenDiagnosis ==
    C5_Case =>
        LET base == IF token_expiry_flag THEN <<"SAS token is expired">> ELSE source_error
            frag == IF job_info.number_failed > 0
                    THEN C_FailedText(kind, job_info.number_failed)
                    ELSE C_GenericText(kind)
        IN  /\ Len(consulted) = 1
            /\ consulted[1] \in {l.sas_token : l \in {x \in Locations(kind, src, dest) : x.type = "sas"}}
            /\ consulted[1] # "" => (token_expiry_flag <=> consulted[1] \in expired)
            /\ pc = "raised" =>
                   /\ job_info.error_msg = base \o frag
                   /\ raised_msg = job_info.error_msg
                   /\ ~job_info.completed
            /\ pc = "returned" => job_info.error_msg = base

C5_Witness ==
    /\ pc = "raised"
    /\ kind = "remove"
    /\ source_failed
    /\ token_expiry_flag
    /\ dest.sas_token = "tokA"
    /\ \E i \in 1..Len(pulled) : C_HasAuth(pulled[i])

JobExists == pc = "stream" \/ EndedWithJob

\* the unlock trigger of each kind, as documented
C_Trigger(k, line) ==
    IF k = "sync"
    THEN /\ startswith(lower(strip(line)), <<"job">>)
         /\ \E i \in 1..Len(line) : LowerTok(line[i]) = "summary"
    ELSE /\ line # <<>> /\ line[1] = "Job"
         /\ \E i \in 1..Len(line) : line[i] = "summary"

\* a line as it enters the summary text
C_Normalised(k, line) ==
    IF k = "sync" THEN SelectSeq(line, LAMBDA x : x \notin {"(", ")"}) ELSE line

\* the concatenation of lines i..Len(h) of h
RECURSIVE C_ConcatFrom(_, _, _)
C_ConcatFrom(k, h, i) ==
    IF i > Len(h) THEN <<>> ELSE C_Normalised(k, h[i]) \o C_ConcatFrom(k, h, i + 1)

C_Triggers(k, h) == {i \in 1..Len(h) : C_Trigger(k, h[i])}

C_FirstTrigger(k, h) == CHOOSE i \in C_Triggers(k, h) : \A j \in C_Triggers(k, h) : i <= j

\* C7 as stated: the summary text is the concatenation of the lines at or
\* after the first unlock-trigger line (empty when there is none).
C7_Original ==
    (JobExists /\ kind \in JobKinds) =>
        summary = IF C_Triggers(kind, pulled) = {} THEN <<>>
                  ELSE C_ConcatFrom(kind, pulled, C_FirstTrigger(kind, pulled))

\* C7 amended: the summary text is the in-order concatenation of the lines
\* strictly after the first unlock-trigger line (for sync with "(" and ")"
\* removed), the trigger line itself and the lines before it excluded; it is
\* empty when no line is a trigger, and the flag is set exactly from the first
\* trigger line on (the consumed lines only grow, so it never falls back).
C7_SummaryAfterFirstTrigger ==
    (JobExists /\ kind \in JobKinds) =>
        /\ unlock_summary <=> C_Triggers(kind, pulled) # {}
        /\ summary = IF C_Triggers(kind, pulled) = {} THEN <<>>
                     ELSE C_ConcatFrom(kind, pulled, C_FirstTrigger(kind, pulled) + 1)

C7_Witness ==
    /\ EndedWithJob
    /\ kind = "sync"
    /\ Len(pulled) = 3
    /\ C_Trigger("sync", pulled[2]) /\ ~C_Trigger("sync", pulled[1])
    /\ pulled[3] = L_Elapsed
    /\ summary = <<"Elapsed Time", " ", "Minutes", ":", " ", "0", ".", "0", "3", "\n">>

\* the line starts with <digits>.<digits> %,
C_PercentLine(line) ==
    \E a \in 1..Len(line) : \E b \in 1..Len(line) :
        /\ a + b + 4 <= Len(line)
        /\ \A i \in 1..a : line[i] \in Digits
        /\ line[a + 1] = "."
        /\ \A i \in (a + 2)..(a + b + 1) : line[i] \in Digits
        /\ SubSeq(line, a + b + 2, a + b + 4) = <<" ", "%", ",">>

\* the float that line starts with
C_PercentOf(line) ==
    LET a == CHOOSE n \in 1..Len(line) : line[n + 1] = "."
        rest == SubSeq(line, a + 2, Len(line))
        b == CHOOSE n \in 1..Len(rest) : rest[n + 1] = " "
    IN  Float(SubSeq(line, 1, a), SubSeq(rest, 1, b))

C_PercentLinesOf(h) == {i \in 1..Len(h) : C_PercentLine(h[i])}

\* C8: after each consumed line of copy, sync and remove, percent_complete is
\* the float of the last line so far that starts with "<digits>.<digits> %,"
\* (0.0 if none); other lines, with or without "%", change nothing and raise
\* nothing.
C8_PercentIsLastMatch ==
    (JobExists /\ kind \in JobKinds) =>
        /\ job_info.percent_complete =
               IF C_PercentLinesOf(pulled) = {} THEN [whole |-> 0, frac |-> <<>>]
               ELSE C_PercentOf(pulled[CHOOSE i \in C_PercentLinesOf(pulled) :
                                           \A j \in C_PercentLinesOf(pulled) : j <= i])
        /\ raise_point \in {"none", "finalize"}

C8_Witness ==
    /\ pc = "stream"
    /\ kind = "copy"
    /\ Len(pulled) = 3
    /\ pulled[1] = L_Pct10
    /\ pulled[2] = L_Pct5_50
    /\ pulled[3] = L_PctInside
    /\ job_info.percent_complete = [whole |-> 5, frac |-> <<"5">>]

C_AuthLinesOf(h) == {i \in 1..Len(h) : C_HasAuth(h[i])}

\* C9: for list, the first line containing "AuthenticationFailed" makes the
\* call raise at once with error_msg that line and completed false; no later
\* line is pulled or echoed and nothing enters output_text or items.
C9_ListAuthAborts ==
    (kind = "list" /\ JobExists /\ C_AuthLinesOf(pulled) # {}) =>
        /\ C_AuthLinesOf(pulled) = {Len(pulled)}
        /\ echoed = pulled
        /\ pc = "raised"
        /\ job_info.error_msg = pulled[Len(pulled)]
        /\ raised_msg = pulled[Len(pulled)]
        /\ ~job_info.completed
        /\ job_info.output_text = <<>>
        /\ job_info.items = <<>>

C9_Witness ==
    /\ kind = "list"
    /\ output_type = "json"
    /\ pc = "raised"
    /\ Len(pulled) = 3
    /\ pulled[1] = J_ListA
    /\ pulled[2] = L_Info
    /\ pulled[3] = L_Auth

\* the object a line decodes to, if it is a complete JSON object
C_Object(line) == JsonLoads(strip(line))

C_IsObject(line) == C_Object(line).ok /\ C_Object(line).val.type = "obj"

C_Field(line, key) ==
    LET o == C_Object(line).val.o
        at == {i \in 1..Len(o) : o[i][1] = <<key>>}
    IN  IF at = {} THEN JNone ELSE o[CHOOSE i \in at : TRUE][2]

C_IsListObject(line) ==
    C_IsObject(line) /\ C_Field(line, "MessageType") = JStr(<<"ListObject">>)

\* a ListObject whose MessageContent is a non-zero number: re-decoding it is
\* the unexpected failure of the decode pass
C_DecodeFails(line) ==
    /\ C_IsListObject(line)
    /\ C_Field(line, "MessageContent").type = "num"
    /\ C_Field(line, "MessageContent").n # 0

\* the list call returned in JSON mode and no failure occurred
C10_Case ==
    /\ kind = "list"
    /\ output_type = "json"
    /\ pc = "returned"
    /\ \A i \in 1..Len(pulled) : ~C_DecodeFails(pulled[i])

RECURSIVE C_Items(_, _, _)
C_Items(F(_), h, i) ==
    IF i > Len(h) THEN <<>> ELSE F(h[i]) \o C_Items(F, h, i + 1)

\* C10 as stated: every ListObject line contributes its MessageContent
\* re-decoded as JSON, every other object except EndOfJob contributes itself,
\* everything else contributes nothing.
C10_OriginalContribution(line) ==
    IF ~C_IsObject(line) THEN <<>>
    ELSE IF C_IsListObject(line)
    THEN <<JsonLoads(C_Field(line, "MessageContent").s).val>>
    ELSE IF C_Field(line, "MessageType") = JStr(<<"EndOfJob">>) THEN <<>>
    ELSE <<C_Object(line).val>>

C10_Original ==
    C10_Case => job_info.items = C_Items(C10_OriginalContribution, pulled, 1)

\* C10 amended: as stated, except that a ListObject contributes only when its
\* MessageContent is a non-empty string that decodes as JSON; a ListObject
\* whose MessageContent is missing, empty or not decodable contributes nothing
\* and raises nothing.
C10_Contribution(line) ==
    IF ~C_IsObject(line) THEN <<>>
    ELSE IF C_IsListObject(line)
    THEN LET mc == C_Field(line, "MessageContent")
         IN  IF mc.type = "str" /\ mc.s # <<>> /\ JsonLoads(mc.s).ok
             THEN <<JsonLoads(mc.s).val>>
             ELSE <<>>
    ELSE IF C_Field(line, "MessageType") = JStr(<<"EndOfJob">>) THEN <<>>
    ELSE <<C_Object(line).val>>

C10_ListJsonItems ==
    C10_Case => job_info.items = C_Items(C10_Contribution, pulled, 1)

C10_Witness ==
    /\ kind = "list"
    /\ output_type = "json"
    /\ pc = "returned"
    /\ pulled = <<J_ListA, J_EndOfJob, J_NoType>>
    /\ job_info.items = <<JObj(<< <<<<"name">>, JStr(<<"a.txt">>)>> >>),
                          JObj(<< <<<<"name">>, JStr(<<"b.txt">>)>> >>)>>

\* the list call returned in JSON mode after the decode pass met a ListObject
\* whose MessageContent is not a string
C11_Case ==
    /\ kind = "list"
    /\ output_type = "json"
    /\ pc = "returned"
    /\ \E i \in 1..Len(pulled) : C_DecodeFails(pulled[i])

\* the lines before the first one on which the decode pass fails
C_BeforeFailure(h) ==
    LET at == {i \in 1..Len(h) : C_DecodeFails(h[i])}
    IN  SubSeq(h, 1, (CHOOSE i \in at : \A j \in at : i <= j) - 1)

\* the consumed lines, each without its trailing whitespace, joined by "\n"
RECURSIVE C_JoinedOutput(_, _)
C_JoinedOutput(h, i) ==
    IF i > Len(h) THEN <<>>
    ELSE rstrip(h[i]) \o (IF i < Len(h) THEN <<"\n">> ELSE <<>>) \o C_JoinedOutput(h, i + 1)

\* C11 as stated: a failure of the decode pass is swallowed, the call returns
\* with completed true and the full output_text, and items holds the items
\* decoded before the failure.
C11_Original ==
    C11_Case =>
        /\ job_info.completed
        /\ job_info.output_text = C_JoinedOutput(pulled, 1)
        /\ job_info.items = C_Items(C10_Contribution, C_BeforeFailure(pulled), 1)

\* C11 amended: a failure of the decode pass is swallowed, the call returns
\* with completed true, final status "Completed", empty error_msg and the full
\* output_text, and items is empty: the items decoded before the failure are
\* dropped with the rest of the pass.
C11_DecodeFailureSwallowed ==
    C11_Case =>
        /\ job_info.completed
        /\ job_info.final_job_status_msg = <<"Completed">>
        /\ job_info.error_msg = <<>>
        /\ raise_point = "none"
        /\ job_info.output_text = C_JoinedOutput(pulled, 1)
        /\ job_info.items = <<>>

C11_Witness ==
    /\ kind = "list"
    /\ output_type = "json"
    /\ pc = "returned"
    /\ pulled = <<J_ListA, J_NumContent, J_NoType>>
    /\ job_info.items = <<>>
    /\ job_info.output_text # <<>>

\* a location the call of kind k uses is Remote-SAS with a non-empty token
\* that the predicate reports expired
C_ExpiredLocation(k, s, d, ex) ==
    \E loc \in (IF k \in {"list", "remove"} THEN {d} ELSE {s, d}) :
        loc.type = "sas" /\ loc.sas_token # "" /\ loc.sas_token \in ex

\* C12 as stated: constructing a Remote-SAS location with an expired token
\* raises "SAS token is expired", and every call given a location whose token
\* is expired by then raises that while building the argument list, before
\* the job record exists and before the line source is started.
C12_Original ==
    [][/\ (pc = "idle" /\ pc' # "idle" /\ C_ExpiredLocation(kind', src', dest', expired))
           => /\ pc' = "raised"
              /\ raise_point' = "construct"
              /\ raised_msg' = <<"SAS token is expired">>
       /\ (pc = "constructed" /\ pc' # "constructed" /\ C_ExpiredLocation(kind, src, dest, expired))
           => /\ pc' = "raised"
              /\ raise_point' = "cmd"
              /\ raised_msg' = <<"SAS token is expired">>
              /\ pulled' = <<>> /\ echoed' = <<>>
              /\ ~job_created']_vars

\* C12 amended: as stated, except that a sync call whose local path does not
\* exist raises at the path check, before the argument list is built; in
\* every case the call raises before the job record exists and before the
\* line source is started.
C12_ExpiredNeverRenders ==
    [][/\ (pc = "idle" /\ pc' # "idle" /\ C_ExpiredLocation(kind', src', dest', expired))
           => /\ pc' = "raised"
              /\ raise_point' = "construct"
              /\ raised_msg' = <<"SAS token is expired">>
       /\ (pc = "constructed" /\ pc' # "constructed" /\ C_ExpiredLocation(kind, src, dest, expired))
           => /\ pc' = "raised"
              /\ \/ raise_point' = "cmd" /\ raised_msg' = <<"SAS token is expired">>
                 \/ kind = "sync" /\ raise_point' = "precondition"
              /\ pulled' = <<>> /\ echoed' = <<>>
              /\ ~job_created']_vars

C12_Witness ==
    /\ pc = "raised"
    /\ raise_point = "cmd"
    /\ kind = "copy"
    /\ src = LocalLoc
    /\ dest = SasLoc("tokA")
    /\ "tokA" \in expired
    /\ raised_msg = <<"SAS token is expired">>
    /\ pulled = <<>>

\* C13: a sync_to_local_location / sync_to_remote_location call whose local
\* path does not exist raises the path error before the argument list is
\* built (so even when a location's token is expired) and before the line
\* source is started; no job record is created and no line is consumed.
C13_SyncPrecondition ==
    path_check = "missing" =>
        /\ kind = "sync"
        /\ pc = "raised"
        /\ raise_point = "precondition"
        /\ raised_msg # <<"SAS token is expired">>
        /\ raised_msg[Len(raised_msg)] =
               " does not exist. For sync operation, the given path needs to exist"
        /\ ~job_created
        /\ pulled = <<>>
        /\ echoed = <<>>
        /\ consulted = <<>>

C13_Witness ==
    /\ path_check = "missing"
    /\ kind = "sync"
    /\ src = SasLoc("tokA")
    /\ dest = LocalLoc
    /\ "tokA" \in expired
    /\ pc = "raised"
    /\ ~job_created

\* C14: for copy, sync and remove on a stream without a line-source failure,
\* error_msg after each consumed line (so just before finalize) is the full
\* text of the last line containing "AuthenticationFailed", empty if there is
\* none: a later such line replaces the earlier one; a call that returns
\* still has exactly that text, a call that raises has it followed by the
\* finalize fragment.
C14_LastAuthLineWins ==
    (job_created /\ kind \in JobKinds /\ ~source_failed) =>
        LET last == C_LastAuthLine(pulled)
        IN  /\ pc \in {"stream", "returned"} => job_info.error_msg = last
            /\ pc = "raised" =>
                   /\ Len(job_info.error_msg) > Len(last)
                   /\ SubSeq(job_info.error_msg, 1, Len(last)) = last
                   /\ job_info.error_msg[Len(last) + 1] = "; "

C14_Witness ==
    /\ pc = "stream"
    /\ kind = "sync"
    /\ pulled = <<L_Auth, L_Completed, L_AuthServer>>
    /\ job_info.error_msg = L_AuthServer

\* the line contains "Final Job Status:"
C_StatusLine(line) ==
    \E i \in 1..(Len(line) - 1) : line[i] = "Final Job Status" /\ line[i + 1] = ":"

\* the text after the last ':' of the line, without surrounding whitespace
C_AfterLastColon(line) ==
    LET last == CHOOSE i \in 1..Len(line) :
                    line[i] = ":" /\ \A j \in (i + 1)..Len(line) : line[j] # ":"
    IN  strip(SubSeq(line, last + 1, Len(line)))

C_StatusLinesOf(h) == {i \in 1..Len(h) : C_StatusLine(h[i])}

\* C15: for copy, sync and remove, after each consumed line
\* final_job_status_msg is the trimmed text after the last ':' of the last
\* line so far that contains "Final Job Status:" ("Final Job Status:
\* Completed: x" gives "x"), and empty when no line contains it: lines without
\* that substring change nothing.
C15_StatusAfterLastColon ==
    (pc = "stream" /\ kind \in JobKinds) =>
        job_info.final_job_status_msg =
            IF C_StatusLinesOf(pulled) = {} THEN <<>>
            ELSE C_AfterLastColon(pulled[CHOOSE i \in C_StatusLinesOf(pulled) :
                                             \A j \in C_StatusLinesOf(pulled) : j <= i])

C15_Witness ==
    /\ pc = "stream"
    /\ kind = "remove"
    /\ pulled = <<L_Completed, L_StatusTwoColons, L_StatusNoColon>>
    /\ job_info.final_job_status_msg = <<"x">>

\* invocation i built its argument list and owns a job record
C_Built(i) == calls[i].pc \in {"stream", "returned", "raised"}

\* the job record of invocation i reflects the lines of invocation i only
C_OwnJob(i) ==
    calls[i].pc = "stream" =>
        /\ calls[i].job.error_msg = C_LastAuthLine(calls[i].pulled)
        /\ calls[i].job.final_job_status_msg =
               IF C_StatusLinesOf(calls[i].pulled) = {} THEN <<>>
               ELSE C_AfterLastColon(calls[i].pulled[
                        CHOOSE n \in C_StatusLinesOf(calls[i].pulled) :
                            \A m \in C_StatusLinesOf(calls[i].pulled) : m <= n])

\* C16 as stated: under every interleaving of two calls on one client the
\* client's fields keep their constructed values, each job record reflects
\* its own call only, and no call reads state another call has mutated: the
\* command of a call is built from the options as the caller constructed
\* them or as the call itself set them.
C16_Original ==
    /\ client = [exe_to_use |-> "azcopy", artefact_dir |-> "None"]
    /\ \A i \in {1, 2} : C_OwnJob(i)
    /\ \A i \in {1, 2} : C_Built(i) =>
           /\ calls[i].options_from \in {0, i}
           /\ calls[i].cmd_recursive <=>
                  (remove_options.initial \/ calls[i].method = "remove_directory_recursive")

\* C16 amended: as stated for the client's fields and the job records; the
\* one write to a shared object is that of remove_directory_recursive, which
\* sets recursive to True on the options object it was given, so its own
\* command is always recursive and a concurrent call given the same options
\* object is recursive if the options were constructed so or if a
\* remove_directory_recursive call has made its assignment before the
\* command was built.
C16_OnlyOptionsShared ==
    /\ client = [exe_to_use |-> "azcopy", artefact_dir |-> "None"]
    /\ \A i \in {1, 2} : C_OwnJob(i)
    /\ IF remove_options.writer = 0
       THEN remove_options.recursive = remove_options.initial
       ELSE /\ remove_options.recursive
            /\ calls[remove_options.writer].method = "remove_directory_recursive"
    /\ \A i \in {1, 2} : C_Built(i) =>
           /\ calls[i].method = "remove_directory_recursive" => calls[i].cmd_recursive
           /\ calls[i].cmd_recursive <=>
                  (remove_options.initial \/ calls[i].options_from # 0)
           /\ calls[i].options_from # 0 =>
                  calls[calls[i].options_from].method = "remove_directory_recursive"

C16_Witness ==
    /\ ~remove_options.initial
    /\ calls[1].method = "remove_single_blob"
    /\ calls[2].method = "remove_directory_recursive"
    /\ calls[1].pc = "returned"
    /\ calls[2].pc = "stream"
    /\ calls[1].cmd_recursive
    /\ calls[1].options_from = 2

\* the interpreter of kind k run over the lines h from the state st
RECURSIVE C_Interpret(_, _, _)
C_Interpret(k, h, st) ==
    IF h = <<>> THEN st
    ELSE C_Interpret(k, Tail(h),
             [job |-> InterpretLine(k, st.job, Head(h)),
              summary |-> AppendSummary(k, st.summary, st.unlock, Head(h)),
              unlock |-> (st.unlock \/ IsUnlockLine(k, Head(h)))])

\* the call of kind k on the line stream h, ending the way this call ended
\* (exhausted, or the same line-source failure with the same expiry answer)
C_Rerun(k, h) ==
    LET st == C_Interpret(k, h, [job |-> NewJobInfo, summary |-> <<>>, unlock |-> FALSE])
        handled == IF source_failed
                   THEN ExceptHandler(k, st.job, source_error, token_expiry_flag)
                   ELSE st.job
    IN  Finalize(k, get_summary_info(k, handled, st.summary))

\* the stream without its percentage lines
C_WithoutPercent(h) == SelectSeq(h, LAMBDA line : ~C_PercentLine(line))

\* C17: for copy, sync and remove, the call on a line stream and the call on
\* the same stream without its percentage lines end with the same completed,
\* final_job_status_msg and error_msg and both return or both raise:
\* percent_complete decides nothing.
C17_PercentInformational ==
    (EndedWithJob /\ kind \in JobKinds) =>
        LET other == C_Rerun(kind, C_WithoutPercent(pulled))
        IN  /\ job_info.completed = other.job.completed
            /\ job_info.final_job_status_msg = other.job.final_job_status_msg
            /\ job_info.error_msg = other.job.error_msg
            /\ (pc = "raised") = other.raised
            /\ other.job.percent_complete = [whole |-> 0, frac |-> <<>>]

C17_Witness ==
    /\ pc = "returned"
    /\ kind = "copy"
    /\ pulled = <<L_Pct10, L_JobSummary, L_Completed>>
    /\ job_info.completed
    /\ job_info.percent_complete = [whole |-> 10, frac |-> <<>>]

\* the raw line starts with "Job" and contains "summary"
C_RawTrigger(line) ==
    /\ line # <<>>
    /\ line[1] = "Job"
    /\ \E i \in 1..Len(line) : line[i] = "summary"

\* the line, trimmed and lowercased, starts with "job" and contains "summary"
C_CleanedTrigger(line) ==
    LET text == {i \in 1..Len(line) : line[i] \notin {" ", "\t", "\n"}}
    IN  /\ text # {}
        /\ line[CHOOSE i \in text : \A j \in text : i <= j] \in {"job", "Job", "JOB"}
        /\ \E i \in 1..Len(line) : line[i] \in {"summary", "Summary", "SUMMARY"}

\* lines that unlock the summary of sync only
C_SyncOnlyTriggers ==
    {<<" ", "job", " ", "1", " ", "Summary", "\n">>,
     <<"JOB", " ", "x", " ", "SUMMARY", "\n">>}

\* C18: the summary of sync is unlocked exactly when some consumed line,
\* trimmed and lowercased, starts with "job" and contains "summary"; that of
\* copy and remove exactly when some consumed raw line starts with "Job" and
\* contains lowercase "summary". "  job 1 Summary" and "JOB x SUMMARY" unlock
\* sync and leave copy and remove locked.
C18_UnlockPerKind ==
    (JobExists /\ kind \in JobKinds) =>
        /\ kind = "sync" =>
               (unlock_summary <=> \E i \in 1..Len(pulled) : C_CleanedTrigger(pulled[i]))
        /\ kind \in {"copy", "remove"} =>
               (unlock_summary <=> \E i \in 1..Len(pulled) : C_RawTrigger(pulled[i]))
        /\ (\E i \in 1..Len(pulled) : pulled[i] \in C_SyncOnlyTriggers) =>
               IF kind = "sync" THEN unlock_summary
               ELSE (\A i \in 1..Len(pulled) : pulled[i] \in C_SyncOnlyTriggers)
                        => ~unlock_summary /\ summary = <<>>

\* a sync call whose summary buffer differs from the one copy builds from the
\* same stream
C18_Witness ==
    /\ pc = "stream"
    /\ kind = "sync"
    /\ pulled = <<L_UpperSummary, L_Completed>>
    /\ unlock_summary
    /\ summary = L_Completed
    /\ C_Interpret("copy", pulled,
                   [job |-> NewJobInfo, summary |-> <<>>, unlock |-> FALSE]).summary = <<>>

\* what the consumed lines h leave in the job record and the summary buffer
C_LastPercent(h) ==
    IF C_PercentLinesOf(h) = {} THEN [whole |-> 0, frac |-> <<>>]
    ELSE C_PercentOf(h[CHOOSE i \in C_PercentLinesOf(h) : \A j \in C_PercentLinesOf(h) : j <= i])

C_LastStatus(h) ==
    IF C_StatusLinesOf(h) = {} THEN <<>>
    ELSE C_AfterLastColon(h[CHOOSE i \in C_StatusLinesOf(h) : \A j \in C_StatusLinesOf(h) : j <= i])

C_SummaryOf(k, h) ==
    IF C_Triggers(k, h) = {} THEN <<>> ELSE C_ConcatFrom(k, h, C_FirstTrigger(k, h) + 1)

\* a sync call ended after its line source failed
C19_Case == EndedWithJob /\ kind = "sync" /\ source_failed

\* what C19 says of every such call, but for the message raised
C19_Frame ==
    /\ consulted = <<>>
    /\ job_info.percent_complete = C_LastPercent(pulled)
    /\ job_info.final_job_status_msg = C_LastStatus(pulled)
    /\ summary = C_SummaryOf("sync", pulled)
    /\ pc = "returned" => job_info.error_msg = C_LastAuthLine(pulled)
    /\ pc = "raised" =>
           /\ \/ job_info.error_msg = C_LastAuthLine(pulled) \o C_GenericText("sync")
              \/ job_info.error_msg =
                     C_LastAuthLine(pulled) \o C_FailedText("sync", job_info.number_failed)
           /\ raised_msg = job_info.error_msg

\* C19 as stated: a line-source failure in sync leaves error_msg,
\* percent_complete, final_job_status_msg and the summary buffer as the
\* consumed lines left them, the predicate is not consulted and the failure
\* text is not recorded; with no AuthenticationFailed line and no terminal
\* status the message raised is exactly "; Error while transferring data".
C19_Original ==
    C19_Case =>
        /\ C19_Frame
        /\ (C_LastAuthLine(pulled) = <<>> /\ C_StatusLinesOf(pulled) = {}) =>
               /\ pc = "raised"
               /\ raised_msg = <<"; ", "Error while transferring data">>

\* C19 amended: as stated, the message raised with no AuthenticationFailed
\* line and no terminal status being "; Error while transferring data" when
\* the failure counter parsed from the summary buffer is 0 and
\* "; Tranfers failed = N" when it is N > 0.
C19_SyncFailureFrame ==
    C19_Case =>
        /\ C19_Frame
        /\ (C_LastAuthLine(pulled) = <<>> /\ C_StatusLinesOf(pulled) = {}) =>
               /\ pc = "raised"
               /\ raised_msg = IF job_info.number_failed > 0
                               THEN <<"; ", "Tranfers failed = ", ToString(job_info.number_failed)>>
                               ELSE <<"; ", "Error while transferring data">>

C19_Witness ==
    /\ kind = "sync"
    /\ source_failed
    /\ source_error # <<>>
    /\ src = SasLoc("tokA")
    /\ "tokA" \in expired
    /\ pc = "raised"
    /\ pulled = <<L_Pct10, L_JobSummary, L_Failed("sync")>>
    /\ raised_msg = <<"; ", "Tranfers failed = ", "2">>

\* the token the except clause of copy asks the predicate about
C_PriorityToken(s, d) ==
    CASE d.type = "sas" -> d.sas_token
      [] d.type # "sas" /\ s.type = "sas" -> s.sas_token
      [] OTHER -> ""

\* C20: the except clause of copy runs only on a line-source failure and
\* consults the predicate exactly once, on the destination's token if the destination is
\* Remote-SAS, else on the source's token if the source is Remote-SAS, else on
\* the empty string; the text recorded follows the answer for that token
\* alone, so between two Remote-SAS locations an expired source token with a
\* valid destination token gives the raw failure text.
C20_TokenPriority ==
    (job_created /\ kind = "copy") =>
        /\ ~source_failed => consulted = <<>>
        /\ (Ended /\ source_failed) =>
               /\ consulted = <<C_PriorityToken(src, dest)>>
               /\ consulted[1] # "" => (token_expiry_flag <=> consulted[1] \in expired)
               /\ LET recorded == IF token_expiry_flag THEN <<"SAS token is expired">>
                                   ELSE source_error
                  IN  SubSeq(job_info.error_msg, 1, Len(recorded)) = recorded
               /\ (/\ src.type = "sas" /\ dest.type = "sas"
                   /\ src.sas_token \in expired
                   /\ dest.sas_token # "" /\ dest.sas_token \notin expired)
                  => /\ SubSeq(job_info.error_msg, 1, Len(source_error)) = source_error
                     /\ \A i \in 1..Len(job_info.error_msg) :
                            job_info.error_msg[i] # "SAS token is expired"

C20_Witness ==
    /\ kind = "copy"
    /\ src = SasLoc("tokA")
    /\ dest = SasLoc("tokB")
    /\ expired = {"tokA"}
    /\ pc = "raised"
    /\ source_failed
    /\ consulted = <<"tokB">>
    /\ source_error = <<"azcopy", " ", "exited with code 1">>
    /\ job_info.error_msg =
           <<"azcopy", " ", "exited with code 1", "; ", "Error while transferring data">>

\* the except clause of copy and remove recorded a line-source failure
C_FailureRecorded == source_failed /\ kind \in {"copy", "remove"}

\* the error text the stream left in the job record: that of the except
\* clause if it ran, else the last AuthenticationFailed line, else ""
C_RecordedError ==
    IF C_FailureRecorded
    THEN IF token_expiry_flag THEN <<"SAS token is expired">> ELSE source_error
    ELSE C_LastAuthLine(pulled)

\* C21: for copy, sync and remove, a call whose terminal status is
\* "Completed" or "CompletedWithSkipped" returns with completed true and with
\* error_msg exactly the error text recorded during the stream (an
\* AuthenticationFailed line, or for copy and remove the text of a
\* line-source failure): finalize neither clears nor extends it, and
\* error_msg is empty on return exactly when nothing was recorded.
C21_SuccessKeepsErrorMsg ==
    (/\ EndedWithJob
     /\ kind \in JobKinds
     /\ job_info.final_job_status_msg \in {<<"Completed">>, <<"CompletedWithSkipped">>})
    => /\ pc = "returned"
       /\ job_info.completed
       /\ job_info.error_msg = C_RecordedError
       /\ job_info.error_msg = <<>> <=>
              (~C_FailureRecorded /\ \A i \in 1..Len(pulled) : ~C_HasAuth(pulled[i]))

C21_Witness ==
    /\ pc = "returned"
    /\ kind = "remove"
    /\ pulled = <<L_Auth, L_Skipped>>
    /\ source_failed
    /\ ~token_expiry_flag
    /\ job_info.completed
    /\ job_info.error_msg = <<"azcopy", " ", "exited with code 1">>
====
